---- MODULE Spec2Model ----
(***************************************************************************)
(* Model of homeassistant/components/matter/light.py: the MatterLight      *)
(* entity.  The state is one Matter endpoint (the attribute values the     *)
(* entity reads), the entity's attributes, and the commands sent by the    *)
(* service call in progress or last completed.                             *)
(* Service calls run one at a time and send_device_command succeeds; the   *)
(* endpoint's descriptor (device types, attributes present, capabilities,  *)
(* level range) is fixed and its subscribed attribute values change.       *)
(*                                                                         *)
(* Python floats are modelled as exact fractions [n |-> , d |-> ]; the     *)
(* values that occur are small enough for IEEE doubles to round and        *)
(* truncate them as the exact fractions do.                                *)
(***************************************************************************)
EXTENDS Integers, Sequences, FiniteSets, TLC

VARIABLES
    endpoint,                      \* self._endpoint: descriptor and attribute values
    _attr_supported_color_modes,   \* None until the first _update_from_device
    _attr_supported_features,      \* LightEntityFeature bitmap
    _supports_brightness,
    _supports_color,
    _supports_color_temperature,
    _attr_is_on,
    _attr_brightness,
    _attr_color_temp,
    _attr_color_mode,
    _attr_hs_color,
    _attr_xy_color,
    pc,                            \* the service call: idle, on_power (awaiting the
                                   \* color command), on_done, off_done
    kwargs,                        \* keyword arguments of the current / last call
    sent                           \* commands sent by the current / last call, in order

entity_vars ==
    <<_attr_supported_color_modes, _attr_supported_features, _supports_brightness,
      _supports_color, _supports_color_temperature, _attr_is_on, _attr_brightness,
      _attr_color_temp, _attr_color_mode, _attr_hs_color, _attr_xy_color>>

call_vars == <<pc, kwargs, sent>>

vars == <<endpoint, entity_vars, call_vars>>

\* An Optional value is a sequence: None, or Some(x) holding x.
None == <<>>
Some(x) == <<x>>
Val(optional) == optional[1]

Frac(n, d) == [n |-> n, d |-> d]

(***************************************************************************)
(* Bounds of the model.                                                    *)
(***************************************************************************)
\* minLevel values of the level ranges: None and 0..MaxMinLevel
MaxMinLevel == 2
\* small maxLevel values of the level ranges: 1..SmallMaxLevel (besides None, 254, 255)
SmallMaxLevel == 4

(***************************************************************************)
(* Constants of the Matter cluster library and of Home Assistant.          *)
(***************************************************************************)
kHueSaturationSupported == 1
kXYAttributesSupported == 8
kColorTemperatureSupported == 16

kCurrentHueAndCurrentSaturation == 0
kCurrentXAndCurrentY == 1
kColorTemperature == 2

\* LightEntityFeature.TRANSITION
TRANSITION == 32

\* homeassistant.components.light.ColorMode
ONOFF == "onoff"
BRIGHTNESS == "brightness"
HS == "hs"
XY == "xy"
COLOR_TEMP == "color_temp"

OnOffLight == "OnOffLight"
DimmableLight == "DimmableLight"

COLOR_MODE_MAP ==
    (kCurrentHueAndCurrentSaturation :> HS)
        @@ (kCurrentXAndCurrentY :> XY)
        @@ (kColorTemperature :> COLOR_TEMP)

DEFAULT_TRANSITION == Frac(2, 10)

\* the bounds of brightness in Home Assistant, as written in the (0, 255) tuples
HassBrightnessRange == <<0, 255>>

(***************************************************************************)
(* Helpers of the repository that light.py calls.                          *)
(***************************************************************************)
\* `capabilities & bit`, for bit a power of two
BitAnd(value, bit) == IF (value \div bit) % 2 = 1 THEN bit ELSE 0

\* `features |= bit`
BitOr(value, bit) == IF (value \div bit) % 2 = 1 THEN value ELSE value + bit

\* util.renormalize: linear map of number from from_range to to_range (a float)
renormalize(number, from_range, to_range) ==
    Frac((to_range[2] - to_range[1]) * (number - from_range[1])
             + to_range[1] * (from_range[2] - from_range[1]),
         from_range[2] - from_range[1])

\* Python's round(): to the nearest integer, a tie going to the even one
round(f) ==
    LET q == f.n \div f.d
        r == f.n % f.d
    IN  IF 2 * r < f.d THEN q
        ELSE IF 2 * r > f.d THEN q + 1
        ELSE IF q % 2 = 0 THEN q ELSE q + 1

\* Python's int() of a non-negative float
int(f) == f.n \div f.d

\* util.convert_to_matter_hs: hue 0..360 and saturation 0..100 to 0..254
convert_to_matter_hs(hs) ==
    <<Frac(hs[1].n * 254, hs[1].d * 360), Frac(hs[2].n * 254, hs[2].d * 100)>>

\* util.convert_to_hass_hs: hue and saturation 0..254 to 0..360 and 0..100
convert_to_hass_hs(hs) == <<Frac(hs[1] * 360, 254), Frac(hs[2] * 100, 254)>>

\* util.convert_to_matter_xy: CIE xy 0..1 to 0..65536
convert_to_matter_xy(xy) ==
    <<Frac(xy[1].n * 65536, xy[1].d), Frac(xy[2].n * 65536, xy[2].d)>>

\* util.convert_to_hass_xy: 0..65536 to CIE xy 0..1
convert_to_hass_xy(xy) == <<Frac(xy[1], 65536), Frac(xy[2], 65536)>>

\* light.filter_supported_color_modes: ONOFF and BRIGHTNESS are dropped
\* when a richer mode is present
filter_supported_color_modes(color_modes) ==
    LET no_onoff ==
            IF ONOFF \in color_modes /\ Cardinality(color_modes) > 1
            THEN color_modes \ {ONOFF}
            ELSE color_modes
    IN  IF BRIGHTNESS \in no_onoff /\ Cardinality(no_onoff) > 1
        THEN no_onoff \ {BRIGHTNESS}
        ELSE no_onoff

(***************************************************************************)
(* The endpoint.                                                           *)
(***************************************************************************)
has_attribute(ep, attribute) == attribute \in ep.attributes

\* the value of an attribute of the endpoint, None when it is absent
get_matter_attribute_value(ep, attribute) == ep[attribute]

\* (level_control.minLevel or 1, level_control.maxLevel or 254)
LevelRange(ep) ==
    <<IF ep.minLevel = None \/ Val(ep.minLevel) = 0 THEN 1 ELSE Val(ep.minLevel),
      IF ep.maxLevel = None \/ Val(ep.maxLevel) = 0 THEN 254 ELSE Val(ep.maxLevel)>>

(***************************************************************************)
(* Reading the device.                                                     *)
(***************************************************************************)
_get_xy_color(ep) ==
    convert_to_hass_xy(<<Val(get_matter_attribute_value(ep, "CurrentX")),
                         Val(get_matter_attribute_value(ep, "CurrentY"))>>)

_get_hs_color(ep) ==
    convert_to_hass_hs(<<Val(get_matter_attribute_value(ep, "CurrentHue")),
                         Val(get_matter_attribute_value(ep, "CurrentSaturation"))>>)

_get_color_temperature(ep) ==
    Val(get_matter_attribute_value(ep, "ColorTemperatureMireds"))

_get_brightness(ep) ==
    round(renormalize(Val(ep.currentLevel), LevelRange(ep), HassBrightnessRange))

_get_color_mode(ep) == COLOR_MODE_MAP[Val(get_matter_attribute_value(ep, "ColorMode"))]

(***************************************************************************)
(* _update_from_device: the features, computed on the first update only.   *)
(***************************************************************************)
\* a plausible slip: the device type filter forgotten
BrightnessSupportNoFilter(ep) == has_attribute(ep, "CurrentLevel")

\* brightness support: LevelControl present and the endpoint not an OnOffLight
BrightnessSupport(ep) ==
    has_attribute(ep, "CurrentLevel") /\ ep.device_types # {OnOffLight}

\* a plausible slip: the XY test reading the hue/saturation bit
ColorCapabilityModesWrongBit(ep) ==
    IF has_attribute(ep, "ColorMode") /\ has_attribute(ep, "ColorCapabilities")
    THEN LET capabilities == Val(get_matter_attribute_value(ep, "ColorCapabilities"))
         IN  (IF BitAnd(capabilities, kHueSaturationSupported) # 0 THEN {HS} ELSE {})
             \cup (IF BitAnd(capabilities, kHueSaturationSupported) # 0 THEN {XY} ELSE {})
             \cup (IF BitAnd(capabilities, kColorTemperatureSupported) # 0
                   THEN {COLOR_TEMP} ELSE {})
    ELSE {}

\* the color modes the ColorCapabilities bitmap grants
ColorCapabilityModes(ep) ==
    IF has_attribute(ep, "ColorMode") /\ has_attribute(ep, "ColorCapabilities")
    THEN LET capabilities == Val(get_matter_attribute_value(ep, "ColorCapabilities"))
         IN  (IF BitAnd(capabilities, kHueSaturationSupported) # 0 THEN {HS} ELSE {})
             \cup (IF BitAnd(capabilities, kXYAttributesSupported) # 0 THEN {XY} ELSE {})
             \cup (IF BitAnd(capabilities, kColorTemperatureSupported) # 0
                   THEN {COLOR_TEMP} ELSE {})
    ELSE {}

\* supported_color_modes as the first update computes it
SupportedColorModes(ep) ==
    filter_supported_color_modes(
        {ONOFF}
            \cup (IF BrightnessSupport(ep) THEN {BRIGHTNESS} ELSE {})
            \cup ColorCapabilityModes(ep))

\* a plausible slip: the flag raised whatever the modes are
SupportedFeaturesAlways(supported_color_modes, features) ==
    BitOr(features, TRANSITION)

\* supported_features after the first update
SupportedFeatures(supported_color_modes, features) ==
    IF supported_color_modes # {ONOFF}
    THEN BitOr(features, TRANSITION)
    ELSE features

(***************************************************************************)
(* _update_from_device: the current values, read on every update.          *)
(***************************************************************************)
\* a plausible slip: the level read only while the light is on
CurrentBrightnessWhileOn(ep, supports_brightness) ==
    IF supports_brightness /\ get_matter_attribute_value(ep, "OnOff") = Some(TRUE)
    THEN Some(_get_brightness(ep))
    ELSE _attr_brightness

\* self._attr_brightness after the update
CurrentBrightness(ep, supports_brightness) ==
    IF supports_brightness THEN Some(_get_brightness(ep)) ELSE _attr_brightness

\* self._attr_color_temp after the update
CurrentColorTemp(ep, supports_color_temperature) ==
    IF supports_color_temperature
    THEN Some(_get_color_temperature(ep))
    ELSE _attr_color_temp

\* self._attr_color_mode after the update
CurrentColorMode(ep, supports_color, color_temp, brightness) ==
    IF supports_color THEN _get_color_mode(ep)
    ELSE IF color_temp # None THEN COLOR_TEMP
    ELSE IF brightness # None THEN BRIGHTNESS
    ELSE ONOFF

_update_from_device(ep) ==
    LET first == _attr_supported_color_modes = None
        modes == IF first THEN SupportedColorModes(ep) ELSE Val(_attr_supported_color_modes)
        supports_brightness ==
            IF first /\ BrightnessSupport(ep) THEN TRUE ELSE _supports_brightness
        supports_color ==
            IF first /\ ColorCapabilityModes(ep) \cap {HS, XY} # {}
            THEN TRUE ELSE _supports_color
        supports_color_temperature ==
            IF first /\ COLOR_TEMP \in ColorCapabilityModes(ep)
            THEN TRUE ELSE _supports_color_temperature
        brightness == CurrentBrightness(ep, supports_brightness)
        color_temp == CurrentColorTemp(ep, supports_color_temperature)
        color_mode == CurrentColorMode(ep, supports_color, color_temp, brightness)
    IN  /\ _attr_supported_color_modes' = Some(modes)
        /\ _attr_supported_features' =
               IF first
               THEN SupportedFeatures(modes, _attr_supported_features)
               ELSE _attr_supported_features
        /\ _supports_brightness' = supports_brightness
        /\ _supports_color' = supports_color
        /\ _supports_color_temperature' = supports_color_temperature
        /\ _attr_is_on' = get_matter_attribute_value(ep, "OnOff")
        /\ _attr_brightness' = brightness
        /\ _attr_color_temp' = color_temp
        /\ _attr_color_mode' = Some(color_mode)
        /\ _attr_hs_color' =
               IF supports_color /\ HS \in modes /\ color_mode = HS
               THEN Some(_get_hs_color(ep))
               ELSE _attr_hs_color
        /\ _attr_xy_color' =
               IF /\ supports_color
                  /\ ~(HS \in modes /\ color_mode = HS)
                  /\ XY \in modes /\ color_mode = XY
               THEN Some(_get_xy_color(ep))
               ELSE _attr_xy_color

(***************************************************************************)
(* Commands.                                                               *)
(***************************************************************************)
\* kwargs.get(ATTR_TRANSITION, DEFAULT_TRANSITION)
Transition(kw) ==
    IF kw.transition = None THEN DEFAULT_TRANSITION ELSE Val(kw.transition)

\* int(transition * 10): tenths of a second
TransitionTime(transition) == int(Frac(transition.n * 10, transition.d))

_set_xy_color(xy_color, transition) ==
    LET matter_xy == convert_to_matter_xy(xy_color)
    IN  [cmd |-> "MoveToColor",
         colorX |-> int(matter_xy[1]),
         colorY |-> int(matter_xy[2]),
         transitionTime |-> TransitionTime(transition),
         optionsMask |-> 1,
         optionsOverride |-> 1]

_set_hs_color(hs_color, transition) ==
    LET matter_hs == convert_to_matter_hs(hs_color)
    IN  [cmd |-> "MoveToHueAndSaturation",
         hue |-> int(matter_hs[1]),
         saturation |-> int(matter_hs[2]),
         transitionTime |-> TransitionTime(transition),
         optionsMask |-> 1,
         optionsOverride |-> 1]

_set_color_temp(color_temp, transition) ==
    [cmd |-> "MoveToColorTemperature",
     colorTemperatureMireds |-> color_temp,
     transitionTime |-> TransitionTime(transition),
     optionsMask |-> 1,
     optionsOverride |-> 1]

\* a plausible slip: the default range used whatever the device reports
BrightnessLevelDefaultRange(ep, brightness) ==
    round(renormalize(brightness, HassBrightnessRange, <<1, 254>>))

\* the level _set_brightness sends
BrightnessLevel(ep, brightness) ==
    round(renormalize(brightness, HassBrightnessRange, LevelRange(ep)))

_set_brightness(ep, brightness, transition) ==
    [cmd |-> "MoveToLevelWithOnOff",
     level |-> BrightnessLevel(ep, brightness),
     transitionTime |-> TransitionTime(transition)]

On == [cmd |-> "On"]
Off == [cmd |-> "Off"]

\* a plausible slip: the elif chain written as separate ifs
ColorCommandsNoElif(kw, supported_color_modes) ==
    IF supported_color_modes = None THEN <<>>
    ELSE (IF kw.hs_color # None /\ HS \in Val(supported_color_modes)
          THEN <<_set_hs_color(Val(kw.hs_color), Transition(kw))>> ELSE <<>>)
         \o (IF kw.xy_color # None /\ XY \in Val(supported_color_modes)
             THEN <<_set_xy_color(Val(kw.xy_color), Transition(kw))>> ELSE <<>>)
         \o (IF kw.color_temp # None /\ COLOR_TEMP \in Val(supported_color_modes)
             THEN <<_set_color_temp(Val(kw.color_temp), Transition(kw))>> ELSE <<>>)

\* async_turn_on, first part: the color command, if any
ColorCommands(kw, supported_color_modes) ==
    IF supported_color_modes = None THEN <<>>
    ELSE IF kw.hs_color # None /\ HS \in Val(supported_color_modes)
    THEN <<_set_hs_color(Val(kw.hs_color), Transition(kw))>>
    ELSE IF kw.xy_color # None /\ XY \in Val(supported_color_modes)
    THEN <<_set_xy_color(Val(kw.xy_color), Transition(kw))>>
    ELSE IF kw.color_temp # None /\ COLOR_TEMP \in Val(supported_color_modes)
    THEN <<_set_color_temp(Val(kw.color_temp), Transition(kw))>>
    ELSE <<>>

\* a plausible slip: the return after _set_brightness forgotten
PowerCommandsNoReturn(kw, supports_brightness, ep) ==
    IF kw.brightness # None /\ supports_brightness
    THEN <<_set_brightness(ep, Val(kw.brightness), Transition(kw)), On>>
    ELSE <<On>>

\* async_turn_on, second part: the level command, or On
PowerCommands(kw, supports_brightness, ep) ==
    IF kw.brightness # None /\ supports_brightness
    THEN <<_set_brightness(ep, Val(kw.brightness), Transition(kw))>>
    ELSE <<On>>

(***************************************************************************)
(* Actions.                                                                *)
(***************************************************************************)
\* the entity is added to Home Assistant: the first _update_from_device
AddedToHass ==
    /\ _attr_supported_color_modes = None
    /\ _update_from_device(endpoint)
    /\ UNCHANGED <<endpoint, call_vars>>

\* the device reports a new value of a subscribed attribute and the
\* subscription callback runs _update_from_device
AttributeUpdated(attribute, value) ==
    /\ _attr_supported_color_modes # None
    /\ endpoint[attribute] # None
    /\ endpoint[attribute] # Some(value)
    /\ LET ep == [endpoint EXCEPT ![attribute] = Some(value)]
       IN  /\ endpoint' = ep
           /\ _update_from_device(ep)
    /\ UNCHANGED call_vars

\* async_turn_on up to its first await: the color command if there is one,
\* and otherwise the whole call
async_turn_on(kw) ==
    /\ pc \in {"idle", "on_done", "off_done"}
    /\ kwargs' = kw
    /\ LET color == ColorCommands(kw, _attr_supported_color_modes)
       IN  IF color # <<>>
           THEN /\ sent' = color
                /\ pc' = "on_power"
           ELSE /\ sent' = PowerCommands(kw, _supports_brightness, endpoint)
                /\ pc' = "on_done"
    /\ UNCHANGED <<endpoint, entity_vars>>

\* async_turn_on resumed after the color command
async_turn_on_resume ==
    /\ pc = "on_power"
    /\ sent' = sent \o PowerCommands(kwargs, _supports_brightness, endpoint)
    /\ pc' = "on_done"
    /\ UNCHANGED <<endpoint, entity_vars, kwargs>>

\* a plausible slip: the state written optimistically
async_turn_off_optimistic(kw) ==
    /\ pc \in {"idle", "on_done", "off_done"}
    /\ kwargs' = kw
    /\ sent' = <<Off>>
    /\ pc' = "off_done"
    /\ _attr_is_on' = Some(FALSE)
    /\ UNCHANGED <<endpoint, _attr_supported_color_modes, _attr_supported_features,
                   _supports_brightness, _supports_color, _supports_color_temperature,
                   _attr_brightness, _attr_color_temp, _attr_color_mode,
                   _attr_hs_color, _attr_xy_color>>

async_turn_off(kw) ==
    /\ pc \in {"idle", "on_done", "off_done"}
    /\ kwargs' = kw
    /\ sent' = <<Off>>
    /\ pc' = "off_done"
    /\ UNCHANGED <<endpoint, entity_vars>>

(***************************************************************************)
(* The endpoints and inputs explored.                                      *)
(***************************************************************************)
DeviceTypeSets == {{OnOffLight}, {DimmableLight}, {OnOffLight, DimmableLight}}

\* ColorCapabilities values: every combination of the three bits read, with
\* and without the bits that are not read (enhanced hue 2, color loop 4)
CapabilityValues == {0, 6, 1, 8, 16, 9, 17, 24, 31}

NoLevelControl ==
    [attributes |-> {}, minLevel |-> None, maxLevel |-> None, currentLevel |-> None]

LevelControls(ranges, levels) ==
    {[attributes |-> {"CurrentLevel"}, minLevel |-> r[1], maxLevel |-> r[2],
      currentLevel |-> Some(c)] : r \in ranges, c \in levels}

NoColorControl ==
    [attributes |-> {}, ColorCapabilities |-> None, ColorMode |-> None,
     CurrentHue |-> None, CurrentSaturation |-> None, CurrentX |-> None,
     CurrentY |-> None, ColorTemperatureMireds |-> None]

ColorControls(modes, hues, xs, mireds) ==
    {[attributes |-> a,
      ColorCapabilities |-> IF "ColorCapabilities" \in a THEN Some(c) ELSE None,
      ColorMode |-> IF "ColorMode" \in a THEN Some(m) ELSE None,
      CurrentHue |-> Some(h), CurrentSaturation |-> Some(254),
      CurrentX |-> Some(x), CurrentY |-> Some(20000),
      ColorTemperatureMireds |-> Some(t)] :
        a \in (SUBSET {"ColorMode", "ColorCapabilities"}) \ {{}},
        c \in CapabilityValues, m \in modes, h \in hues, x \in xs, t \in mireds}

Endpoints(level_controls, color_controls) ==
    {[device_types |-> dt,
      attributes |-> lc.attributes \cup cc.attributes,
      OnOff |-> Some(on),
      minLevel |-> lc.minLevel, maxLevel |-> lc.maxLevel,
      currentLevel |-> lc.currentLevel,
      ColorCapabilities |-> cc.ColorCapabilities, ColorMode |-> cc.ColorMode,
      CurrentHue |-> cc.CurrentHue, CurrentSaturation |-> cc.CurrentSaturation,
      CurrentX |-> cc.CurrentX, CurrentY |-> cc.CurrentY,
      ColorTemperatureMireds |-> cc.ColorTemperatureMireds] :
        dt \in DeviceTypeSets, on \in BOOLEAN,
        lc \in level_controls, cc \in color_controls}

Kwargs(hs_colors, xy_colors, color_temps, brightnesses, transitions) ==
    [hs_color : hs_colors, xy_color : xy_colors, color_temp : color_temps,
     brightness : brightnesses, transition : transitions]

\* no keyword argument given: every kwargs.get returns None
NoKwargs ==
    [hs_color |-> None, xy_color |-> None, color_temp |-> None,
     brightness |-> None, transition |-> None]

ColorModeValues ==
    {kCurrentHueAndCurrentSaturation, kCurrentXAndCurrentY, kColorTemperature}

InitEntity ==
    /\ _attr_supported_color_modes = None
    /\ _attr_supported_features = 0
    /\ _supports_brightness = FALSE
    /\ _supports_color = FALSE
    /\ _supports_color_temperature = FALSE
    /\ _attr_is_on = None
    /\ _attr_brightness = None
    /\ _attr_color_temp = None
    /\ _attr_color_mode = None
    /\ _attr_hs_color = None
    /\ _attr_xy_color = None
    /\ pc = "idle"
    /\ kwargs = NoKwargs
    /\ sent = <<>>

(***************************************************************************)
(* Spec: service calls on every kind of endpoint, interleaved with the     *)
(* first update and with OnOff / CurrentLevel reports.                     *)
(***************************************************************************)
SpecEndpoints ==
    Endpoints({NoLevelControl} \cup LevelControls({<<None, None>>, <<Some(2), Some(10)>>}, {2, 10}),
              {NoColorControl}
                  \cup ColorControls({kCurrentHueAndCurrentSaturation}, {127}, {30000}, {300}))

SpecKwargs ==
    Kwargs({None, Some(<<Frac(180, 1), Frac(50, 1)>>)},
           {None, Some(<<Frac(1, 2), Frac(1, 4)>>)},
           {None, Some(300)}, {None, Some(128)}, {None, Some(Frac(1, 1))})

SpecValues == [OnOff |-> BOOLEAN, currentLevel |-> {2, 10}]

Init ==
    /\ endpoint \in SpecEndpoints
    /\ InitEntity

Next ==
    \/ AddedToHass
    \/ \E a \in DOMAIN SpecValues : \E v \in SpecValues[a] : AttributeUpdated(a, v)
    \/ \E kw \in SpecKwargs : async_turn_on(kw)
    \/ async_turn_on_resume
    \/ \E kw \in SpecKwargs : async_turn_off(kw)

Spec == Init /\ [][Next]_vars

(***************************************************************************)
(* SpecUpdate: every subscribed attribute reported in any order.           *)
(***************************************************************************)
UpdateEndpoints ==
    Endpoints({NoLevelControl} \cup LevelControls({<<None, None>>, <<Some(2), Some(10)>>}, {2, 10}),
              {NoColorControl}
                  \cup ColorControls(ColorModeValues, {0, 127}, {100, 30000}, {153, 500}))

UpdateValues ==
    [OnOff |-> BOOLEAN, currentLevel |-> {2, 10}, ColorMode |-> ColorModeValues,
     CurrentHue |-> {0, 127}, CurrentX |-> {100, 30000},
     ColorTemperatureMireds |-> {153, 500}]

InitUpdate ==
    /\ endpoint \in UpdateEndpoints
    /\ InitEntity

NextUpdate ==
    \/ AddedToHass
    \/ \E a \in DOMAIN UpdateValues : \E v \in UpdateValues[a] : AttributeUpdated(a, v)

SpecUpdate == InitUpdate /\ [][NextUpdate]_vars

(***************************************************************************)
(* SpecGetLevel and SpecSetLevel: the two brightness conversions over the  *)
(* level ranges a device can report, with lo < hi so that the rescaling    *)
(* is defined.                                                             *)
(***************************************************************************)
LevelRanges ==
    {r \in ({None} \cup {Some(l) : l \in 0..MaxMinLevel})
              \X ({None} \cup {Some(l) : l \in {254, 255} \cup 1..SmallMaxLevel}) :
        LET lo == IF r[1] = None \/ Val(r[1]) = 0 THEN 1 ELSE Val(r[1])
            hi == IF r[2] = None \/ Val(r[2]) = 0 THEN 254 ELSE Val(r[2])
        IN  lo < hi}

LevelEndpoints ==
    {ep \in Endpoints(LevelControls(LevelRanges, {1}), {NoColorControl}) :
        ep.device_types = {DimmableLight} /\ ep.OnOff = Some(TRUE)}

LevelValues == [currentLevel |-> 0..255]

LevelKwargs == Kwargs({None}, {None}, {None}, {Some(b) : b \in 0..255}, {None})

InitLevel ==
    /\ endpoint \in LevelEndpoints
    /\ InitEntity

NextGetLevel ==
    \/ AddedToHass
    \/ \E a \in DOMAIN LevelValues : \E v \in LevelValues[a] : AttributeUpdated(a, v)

SpecGetLevel == InitLevel /\ [][NextGetLevel]_vars

NextSetLevel ==
    \/ AddedToHass
    \/ \E kw \in LevelKwargs : async_turn_on(kw)

SpecSetLevel == InitLevel /\ [][NextSetLevel]_vars

(***************************************************************************)
(* Properties.                                                             *)
(***************************************************************************)
IsPowerCommand(c) == c.cmd \in {"On", "MoveToLevelWithOnOff"}

IsColorCommand(c) ==
    c.cmd \in {"MoveToHueAndSaturation", "MoveToColor", "MoveToColorTemperature"}

\* a step in which a service call runs (up to its next await)
CallStep == pc' # pc \/ kwargs' # kwargs \/ sent' # sent

\* C1: every async_turn_on sends exactly one power command, and sends it
\* last: MoveToLevelWithOnOff when a brightness is given and the entity
\* supports brightness, On otherwise (also before the first update); while
\* the call waits on its color command no power command has been sent.
C1_OnePowerCommand ==
    /\ [](/\ pc = "on_done" =>
                /\ Len(SelectSeq(sent, IsPowerCommand)) = 1
                /\ IsPowerCommand(sent[Len(sent)])
          /\ pc = "on_power" => SelectSeq(sent, IsPowerCommand) = <<>>)
    /\ [][(CallStep /\ pc' = "on_done") =>
            LET power == sent'[Len(sent')]
            IN  /\ (kwargs'.brightness # None /\ _supports_brightness)
                       => power.cmd = "MoveToLevelWithOnOff"
                /\ (kwargs'.brightness = None \/ ~_supports_brightness)
                       => power = On
                /\ _attr_supported_color_modes = None => power = On]_vars

\* C1 witness: a completed call that sent a color command and then a level command
C1_Witness ==
    /\ pc = "on_done"
    /\ Len(sent) = 2
    /\ sent[2].cmd = "MoveToLevelWithOnOff"

\* C2: every async_turn_off sends exactly one command, Off, whatever its
\* keyword arguments and the entity's state, and changes no entity attribute.
C2_TurnOffSendsOff ==
    [][(CallStep /\ pc' = "off_done") =>
          /\ sent' = <<Off>>
          /\ UNCHANGED <<endpoint, entity_vars>>]_vars

\* C2 witness: a completed turn_off that was given a brightness and a color
\* the entity supports
C2_Witness ==
    /\ pc = "off_done"
    /\ kwargs.brightness # None /\ _supports_brightness
    /\ kwargs.hs_color # None
    /\ _attr_supported_color_modes # None
    /\ HS \in Val(_attr_supported_color_modes)

\* the color command a call must send: the first of hs, xy, color_temp that
\* is requested and supported
ExpectedColorCommand(kw, supported_color_modes) ==
    LET modes == IF supported_color_modes = None THEN {} ELSE Val(supported_color_modes)
    IN  IF kw.hs_color # None /\ HS \in modes THEN "MoveToHueAndSaturation"
        ELSE IF kw.xy_color # None /\ XY \in modes THEN "MoveToColor"
        ELSE IF kw.color_temp # None /\ COLOR_TEMP \in modes THEN "MoveToColorTemperature"
        ELSE "none"

\* C3: one async_turn_on sends at most one color command, the first of
\* hs_color, xy_color, color_temp that is requested and supported, and sends
\* it before the power command.
C3_OneColorCommandFirst ==
    /\ [](pc \in {"on_power", "on_done"} =>
            /\ Len(SelectSeq(sent, IsColorCommand)) <= 1
            /\ \A i \in 1..Len(sent) : IsColorCommand(sent[i]) => i = 1
            /\ \A i \in 1..Len(sent) : IsPowerCommand(sent[i]) => i = Len(sent))
    /\ [][(CallStep /\ pc \notin {"on_power"} /\ pc' \in {"on_power", "on_done"}) =>
            LET expected == ExpectedColorCommand(kwargs', _attr_supported_color_modes)
            IN  IF expected = "none"
                THEN SelectSeq(sent', IsColorCommand) = <<>>
                ELSE sent'[1].cmd = expected]_vars
    /\ [][(pc = "on_power" /\ pc' = "on_done") =>
            /\ Len(sent') = 2
            /\ sent'[1] = sent[1]
            /\ IsPowerCommand(sent'[2])]_vars

\* C3 witness: all three colors requested, hs not supported, xy chosen, and
\* the power command sent after it
C3_Witness ==
    /\ pc = "on_done"
    /\ kwargs.hs_color # None /\ kwargs.xy_color # None /\ kwargs.color_temp # None
    /\ Len(sent) = 2
    /\ sent[1].cmd = "MoveToColor"
    /\ IsPowerCommand(sent[2])

\* the level range the device reports, the defaults standing for a bound
\* it does not report
ReportedMin(ep) == IF ep.minLevel = None THEN 1 ELSE Val(ep.minLevel)

ReportedMax(ep) == IF ep.maxLevel = None THEN 254 ELSE Val(ep.maxLevel)

\* C4: for a currentLevel between the device-reported minLevel and
\* maxLevel, the brightness reported is an integer in 0..255, the minimum
\* level giving 0 and the maximum level 255.
C4_BrightnessInRange ==
    (/\ _attr_brightness # None
     /\ ReportedMin(endpoint) <= Val(endpoint.currentLevel)
     /\ Val(endpoint.currentLevel) <= ReportedMax(endpoint))
        => /\ Val(_attr_brightness) \in 0..255
           /\ Val(endpoint.currentLevel) = ReportedMin(endpoint)
                  => Val(_attr_brightness) = 0
           /\ Val(endpoint.currentLevel) = ReportedMax(endpoint)
                  => Val(_attr_brightness) = 255

\* whether the endpoint has both ColorControl attributes and reports the bit
CapabilityBit(ep, bit) ==
    /\ {"ColorMode", "ColorCapabilities"} \subseteq ep.attributes
    /\ (Val(ep.ColorCapabilities) \div bit) % 2 = 1

\* C5: after the first update HS, XY and COLOR_TEMP are supported exactly
\* when the endpoint has the ColorMode and ColorCapabilities attributes and
\* the bit 1, 8, 16 of the bitmap is set; _supports_color is HS or XY,
\* _supports_color_temperature is COLOR_TEMP.
C5_ColorCapabilities ==
    _attr_supported_color_modes # None =>
        LET modes == Val(_attr_supported_color_modes)
        IN  /\ HS \in modes <=> CapabilityBit(endpoint, 1)
            /\ XY \in modes <=> CapabilityBit(endpoint, 8)
            /\ COLOR_TEMP \in modes <=> CapabilityBit(endpoint, 16)
            /\ _supports_color <=> (HS \in modes \/ XY \in modes)
            /\ _supports_color_temperature <=> COLOR_TEMP \in modes

\* C5 witness: an updated entity with XY and COLOR_TEMP but not HS
C5_Witness ==
    /\ _attr_supported_color_modes = Some({XY, COLOR_TEMP})
    /\ _supports_color
    /\ _supports_color_temperature

\* what the entity exposes
Exposed ==
    <<_attr_supported_color_modes, _attr_supported_features, _attr_is_on,
      _attr_brightness, _attr_color_temp, _attr_color_mode, _attr_hs_color,
      _attr_xy_color>>

\* what a second entity exposes that saw nothing but one update on ep
ExposedByNewEntity(ep) ==
    LET modes == SupportedColorModes(ep)
        supports_color == ColorCapabilityModes(ep) \cap {HS, XY} # {}
        brightness == IF BrightnessSupport(ep) THEN Some(_get_brightness(ep)) ELSE None
        color_temp ==
            IF COLOR_TEMP \in ColorCapabilityModes(ep)
            THEN Some(_get_color_temperature(ep)) ELSE None
        color_mode ==
            IF supports_color THEN _get_color_mode(ep)
            ELSE IF color_temp # None THEN COLOR_TEMP
            ELSE IF brightness # None THEN BRIGHTNESS
            ELSE ONOFF
    IN  <<Some(modes),
          IF modes # {ONOFF} THEN TRANSITION ELSE 0,
          ep.OnOff, brightness, color_temp, Some(color_mode),
          IF supports_color /\ HS \in modes /\ color_mode = HS
          THEN Some(_get_hs_color(ep)) ELSE None,
          IF supports_color /\ XY \in modes /\ color_mode = XY
          THEN Some(_get_xy_color(ep)) ELSE None>>

C7_OnOffLightNoBrightness ==
    /\ _attr_supported_color_modes # None =>
           (_supports_brightness <=>
                ("CurrentLevel" \in endpoint.attributes
                     /\ endpoint.device_types # {OnOffLight}))
    /\ endpoint.device_types = {OnOffLight} =>
           /\ ~_supports_brightness
           /\ _attr_supported_color_modes # None
                  => BRIGHTNESS \notin Val(_attr_supported_color_modes)
           /\ _attr_brightness = None
           /\ \A i \in 1..Len(sent) : sent[i].cmd # "MoveToLevelWithOnOff"

\* C7 witness: an updated OnOffLight endpoint with a LevelControl cluster
\* that was turned on with a brightness
C7_Witness ==
    /\ endpoint.device_types = {OnOffLight}
    /\ "CurrentLevel" \in endpoint.attributes
    /\ _attr_supported_color_modes = Some({ONOFF})
    /\ pc = "on_done"
    /\ kwargs.brightness # None
    /\ sent = <<On>>

\* C8: after any updates TRANSITION is in supported_features exactly when
\* supported_color_modes is not {ONOFF}.
C8_TransitionFlag ==
    _attr_supported_color_modes # None =>
        ((_attr_supported_features \div 32) % 2 = 1
             <=> Val(_attr_supported_color_modes) # {ONOFF})

\* C8 witness: an updated entity with only ONOFF and without the flag
C8_Witness ==
    /\ _attr_supported_color_modes = Some({ONOFF})
    /\ _attr_supported_features = 0
    /\ _attr_color_mode = Some(ONOFF)

\* C9: the level _set_brightness sends lies in the device's level range
\* lo..hi, brightness 0 giving lo and 255 giving hi, and a larger brightness
\* never gives a smaller level.
C9_LevelInRange ==
    /\ [](\A i \in 1..Len(sent) : sent[i].cmd = "MoveToLevelWithOnOff" =>
            LET lo == LevelRange(endpoint)[1]
                hi == LevelRange(endpoint)[2]
            IN  /\ lo <= sent[i].level /\ sent[i].level <= hi
                /\ kwargs.brightness = Some(0) => sent[i].level = lo
                /\ kwargs.brightness = Some(255) => sent[i].level = hi)
    /\ [][(/\ sent # <<>> /\ sent' # <<>>
           /\ sent[1].cmd = "MoveToLevelWithOnOff"
           /\ sent'[1].cmd = "MoveToLevelWithOnOff"
           /\ Val(kwargs.brightness) <= Val(kwargs'.brightness))
              => sent[1].level <= sent'[1].level]_vars

\* C9 witness: a level strictly inside a device-reported range
C9_Witness ==
    /\ endpoint.minLevel = Some(2)
    /\ endpoint.maxLevel = Some(4)
    /\ kwargs.brightness = Some(128)
    /\ sent # <<>>
    /\ sent[1].cmd = "MoveToLevelWithOnOff"
    /\ sent[1].level = 3

\* C10: after every update the entity's color_mode is a member of its
\* supported_color_modes.
C10_ColorModeSupported ==
    _attr_supported_color_modes # None =>
        Val(_attr_color_mode) \in Val(_attr_supported_color_modes)

====
